---- MODULE Spec2Model ----
(***************************************************************************)
(* News Pulse API (src/app.js): the Telegram webhook and its in-memory     *)
(* studio buffer, the /api/azad-studio read route, the /api/feed and       *)
(* /api/breaking fan-outs, and dedupeByLink.                               *)
(*                                                                         *)
(* JavaScript values are encoded with uniform TLA+ types:                  *)
(*   - a string is a sequence of one-character strings (Chars), so that    *)
(*     split/slice are computed; opaque identifiers (file ids, links,      *)
(*     category names) are TLA+ strings;                                   *)
(*   - "undefined" and "null" are the JavaScript undefined / null;         *)
(*   - an optional string field is [k |-> "undef" | "str" | "num", s |-> _]*)
(*     ("num" is a truthy non-string value, on which .split throws);       *)
(*   - the tags array of a post is an object on the JavaScript heap: a     *)
(*     post holds a reference (an index of tagsHeap), and an object spread *)
(*     copies the reference, not the array.                                *)
(***************************************************************************)
EXTENDS Integers, Sequences, FiniteSets, Bags, TLC

VARIABLES
  ADMIN_KEY,      \* process.env.ADMIN_KEY ("" when not configured)
  studioBuffer,   \* app.js:114, sequence of posts, head first
  tagsHeap,       \* heap of the tags arrays allocated by the webhook
  ingested,       \* ghost: every post handed to push, most recent first
  req,            \* the last request handled
  res,            \* the response sent for it, as the client holds it
  deliveries,     \* ghost: number of webhook deliveries so far
  reads,          \* ghost: number of GET /api/azad-studio requests so far
  aReq,           \* the /api/feed or /api/breaking request
  aPc,            \* its handler: "start", "fanout" (awaiting Promise.all), "done"
  urls,           \* the handler's urls (a sequence, or <<>> before the lookup)
  src,            \* per url: the state of its parser.parseURL task
  pending,        \* per url: bag of entries whose summarize call is outstanding
  items,          \* the handler's items array
  aRes,           \* the response of the handler
  now,            \* Date.now(), in ticks
  lastPush,       \* ghost: the last entry enriched by /api/feed
  dIn,            \* argument of dedupeByLink
  dOut,           \* its result
  dOut2,          \* the result of applying it to dOut
  dPc             \* "input", "once", "twice"

studioVars == <<ADMIN_KEY, studioBuffer, tagsHeap, ingested, req, res, deliveries, reads>>

aggVars == <<aReq, aPc, urls, src, pending, items, aRes, now, lastPush>>

dedupeVars == <<dIn, dOut, dOut2, dPc>>

vars == <<ADMIN_KEY, studioBuffer, tagsHeap, ingested, req, res, deliveries, reads,
          aReq, aPc, urls, src, pending, items, aRes, now, lastPush, dIn, dOut, dOut2, dPc>>

----------------------------------------------------------------------------
(* Bounds and program constants *)

MaxDeliveries == 2     \* webhook deliveries with freely chosen payloads
MaxFill == 52          \* webhook deliveries of the fill run (beyond studioMax)
MaxReads == 2          \* GET /api/azad-studio requests per run
MaxMutations == 2      \* mutations a client applies to one received snapshot
LongFeedLen == 11      \* entries of the longest syndication feed
MaxElapsed == 2        \* ticks that pass while /api/breaking awaits its sources
MaxDedupeLen == 4      \* length of the sequences given to dedupeByLink

studioMax == 50
TITLE_MAX == 100
FEED_LIMIT == 10       \* (feed.items || []).slice(0, 10)
TOP_K == 5             \* .slice(0, 5)
NAN_AGE_MIN == 99999   \* isNaN(pub.getTime()) ? 99999 : ...
TicksPerMin == 10      \* a tick is 6000 ms: ageMin = ticks / 10
Now0 == 298983000      \* Date.now() when the request arrives (November 2026)

UNDEF == "undefined"
NULL == "null"

Min(a, b) == IF a < b THEN a ELSE b
Max(a, b) == IF a > b THEN a ELSE b

----------------------------------------------------------------------------
(* JavaScript string helpers *)

Str(s) == [k |-> "str", s |-> s]
NoStr == [k |-> "undef", s |-> <<>>]
NumVal == [k |-> "num", s |-> <<>>]

\* JavaScript truthiness of an optional string field
Truthy(f) == f.k = "num" \/ (f.k = "str" /\ Len(f.s) > 0)

\* Array.prototype.slice(0, n) / String.prototype.slice(0, n)
Slice0(s, n) == SubSeq(s, 1, Min(Len(s), n))

\* s.split("\n")[0]: the characters before the first line break
FirstLine(s) ==
  LET breaks == {i \in 1..Len(s) : s[i] = "\n"}
      first == CHOOSE i \in breaks : \A j \in breaks : i <= j
  IN IF breaks = {} THEN s ELSE SubSeq(s, 1, first - 1)

\* text.split("\n")[0]?.slice(0, 100) || ""
TitleOf(text) == Slice0(FirstLine(text), TITLE_MAX)

----------------------------------------------------------------------------
(* Webhook payloads *)

FloodText == <<"F", "l", "o", "o", "d", "\n", "m", "o", "r", "e">>
CapText == <<"c", "a", "p">>
LongLine == [i \in 1..(TITLE_MAX + 1) |-> "x"]

NoPhoto == [present |-> FALSE, sizes |-> <<>>]
EmptyPhoto == [present |-> TRUE, sizes |-> <<>>]
TwoPhoto == [present |-> TRUE, sizes |-> <<"ph_small", "ph_large">>]

NoMessage ==
  [present |-> FALSE, chatType |-> UNDEF, message_id |-> 0, photo |-> NoPhoto,
   video |-> UNDEF, text |-> NoStr, caption |-> NoStr, date |-> 0]

\* Messages vary in their media with a fixed text, or in their text and
\* caption with no media.
MessageBase ==
  [present |-> TRUE, chatType |-> "channel", message_id |-> 7, photo |-> NoPhoto,
   video |-> UNDEF, text |-> Str(FloodText), caption |-> NoStr, date |-> 1700]

MediaVariants ==
  {[MessageBase EXCEPT !.photo = p, !.video = v] :
     p \in {NoPhoto, EmptyPhoto, TwoPhoto}, v \in {UNDEF, "vid"}}

TextVariants ==
  {[MessageBase EXCEPT !.text = t, !.caption = c] :
     t \in {NoStr, Str(<<>>), Str(FloodText), Str(LongLine), NumVal},
     c \in {NoStr, Str(CapText)}}

Messages ==
  {[m EXCEPT !.chatType = ct] :
     m \in MediaVariants \cup TextVariants, ct \in {"channel", "private"}}
  \cup {[MessageBase EXCEPT !.chatType = "group"]}

\* An update carries a channel_post, a message, both, or neither.
BothUpdates ==
  [channel_post : {m \in Messages : m.photo = TwoPhoto /\ m.video = UNDEF},
   message : {m \in Messages : m.text = NoStr /\ m.caption = Str(CapText)}]

Updates ==
  [channel_post : Messages, message : {NoMessage}]
  \cup [channel_post : {NoMessage}, message : Messages]
  \cup BothUpdates
  \cup {[channel_post |-> NoMessage, message |-> NoMessage]}

Secrets == {UNDEF, "s3cret", "wrong"}

----------------------------------------------------------------------------
(* POST /telegram/webhook *)

\* const push = (obj) => { studioBuffer.unshift(obj);
\*                         if (studioBuffer.length > studioMax) studioBuffer.pop(); }
pushEvictHead(buf, obj) ==
  LET b == <<obj>> \o buf
  IN IF Len(b) > studioMax THEN Tail(b) ELSE b

push(buf, obj) ==
  LET b == <<obj>> \o buf
  IN IF Len(b) > studioMax THEN SubSeq(b, 1, Len(b) - 1) ELSE b

\* let type = "text", file_id = null;
\* if (m.photo?.length) { type = "photo"; file_id = m.photo.slice(-1)[0].file_id; }
\* if (m.video) { type = "video"; file_id = m.video.file_id; }
MediaPhotoFirst(m) ==
  IF Len(m.photo.sizes) > 0
    THEN [type |-> "photo", file_id |-> m.photo.sizes[Len(m.photo.sizes)]]
  ELSE IF m.video # UNDEF THEN [type |-> "video", file_id |-> m.video]
  ELSE [type |-> "text", file_id |-> NULL]

MediaOf(m) ==
  LET afterPhoto ==
        IF Len(m.photo.sizes) > 0
          THEN [type |-> "photo", file_id |-> m.photo.sizes[Len(m.photo.sizes)]]
          ELSE [type |-> "text", file_id |-> NULL]
  IN IF m.video # UNDEF THEN [type |-> "video", file_id |-> m.video]
     ELSE afterPhoto

\* const text = (m.text || m.caption || "");
TextOf(m) ==
  IF Truthy(m.text) THEN m.text
  ELSE IF Truthy(m.caption) THEN m.caption
  ELSE Str(<<>>)

\* text.split is not a function when the chosen value is not a string
Throws(m) == TextOf(m).k = "num"

\* The object literal handed to push; tags: [] is a fresh array at ref.
PostOf(m, ref) ==
  [id |-> m.message_id, type |-> MediaOf(m).type, file_id |-> MediaOf(m).file_id,
   title |-> TitleOf(TextOf(m).s), caption |-> TextOf(m).s, date |-> m.date,
   tags |-> ref]

\* The message the handler ingests: "ch" (channel_post of a channel chat),
\* "msg" (message of a private chat) or "none".
BranchOf(u) ==
  IF u.channel_post.present /\ u.channel_post.chatType = "channel" THEN "ch"
  ELSE IF u.message.present /\ u.message.chatType = "private" THEN "msg"
  ELSE "none"

IngestedMessage(u) ==
  IF BranchOf(u) = "ch" THEN u.channel_post ELSE u.message

\* if (process.env.ADMIN_KEY) { if (secret !== ADMIN_KEY) return res.sendStatus(401); }
AuthorizedInverted(secret) == ADMIN_KEY = "" \/ secret # ADMIN_KEY

Authorized(secret) == ADMIN_KEY = "" \/ secret = ADMIN_KEY

\* A post with its tags array read through the heap
Deep(p, heap) == [p EXCEPT !.tags = heap[p.tags]]
DeepSeq(buf, heap) == [i \in 1..Len(buf) |-> Deep(buf[i], heap)]

Webhook(u, secret) ==
  /\ UNCHANGED <<aggVars, dedupeVars>>
  /\ req' = [route |-> "webhook", update |-> u, secret |-> secret]
  /\ deliveries' = deliveries + 1
  /\ UNCHANGED <<ADMIN_KEY, reads>>
  /\ IF ~Authorized(secret)
       THEN /\ res' = [status |-> 401, pushed |-> FALSE, items |-> <<>>, mutations |-> 0]
            /\ UNCHANGED <<studioBuffer, tagsHeap, ingested>>
     ELSE IF BranchOf(u) = "none" \/ Throws(IngestedMessage(u))
       THEN /\ res' = [status |-> 200, pushed |-> FALSE, items |-> <<>>, mutations |-> 0]
            /\ UNCHANGED <<studioBuffer, tagsHeap, ingested>>
     ELSE LET ref == Len(tagsHeap) + 1
              post == PostOf(IngestedMessage(u), ref)
          IN /\ tagsHeap' = Append(tagsHeap, <<>>)
             /\ studioBuffer' = push(studioBuffer, post)
             /\ ingested' = <<Deep(post, tagsHeap')>> \o ingested
             /\ res' = [status |-> 200, pushed |-> TRUE, items |-> <<>>, mutations |-> 0]

----------------------------------------------------------------------------
(* GET /api/azad-studio *)

\* studioBuffer.map(p => ({ ...p, mediaUrl: p.file_id ? `/tg/file/${p.file_id}` : null,
\*                          source: "Azad Studio" }))
\* The spread copies the tags reference: out[i].tags is the buffer's array.
SnapshotOut(buf) ==
  [i \in 1..Len(buf) |->
     [id |-> buf[i].id, type |-> buf[i].type, file_id |-> buf[i].file_id,
      title |-> buf[i].title, caption |-> buf[i].caption, date |-> buf[i].date,
      tags |-> buf[i].tags,
      mediaUrl |-> IF buf[i].file_id # NULL
                     THEN <<"/tg/file/", buf[i].file_id>> ELSE <<>>,
      source |-> "Azad Studio"]]

\* What the client holds of an entry's tags: the array's contents, and
\* whether it is the server's live array (live, at ref) or a copy.
JsonLive(out, heap) ==
  [i \in 1..Len(out) |->
     [out[i] EXCEPT !.tags = [live |-> TRUE, ref |-> out[i].tags, val |-> heap[out[i].tags]]]]

\* res.json({ items: out }): JSON.stringify writes the contents of every
\* array into the body, so the client's items hold no server reference.
JsonBody(out, heap) ==
  [i \in 1..Len(out) |->
     [out[i] EXCEPT !.tags = [live |-> FALSE, ref |-> 0, val |-> heap[out[i].tags]]]]

NoUpdate == [channel_post |-> NoMessage, message |-> NoMessage]

ReadStudio ==
  /\ UNCHANGED <<aggVars, dedupeVars>>
  /\ reads < MaxReads
  /\ reads' = reads + 1
  /\ req' = [route |-> "read", update |-> NoUpdate, secret |-> UNDEF]
  /\ res' = [status |-> 200, pushed |-> FALSE,
             items |-> JsonBody(SnapshotOut(studioBuffer), tagsHeap), mutations |-> 0]
  /\ UNCHANGED <<ADMIN_KEY, studioBuffer, tagsHeap, ingested, deliveries>>

----------------------------------------------------------------------------
(* A client mutating the items it received *)

Reverse(s) == [i \in 1..Len(s) |-> s[Len(s) + 1 - i]]
RemoveAt(s, i) == SubSeq(s, 1, i - 1) \o SubSeq(s, i + 1, Len(s))

CanMutate ==
  /\ req.route = "read"
  /\ res.mutations < MaxMutations
  /\ Len(res.items) > 0

Mutated(newItems) ==
  /\ res' = [res EXCEPT !.items = newItems, !.mutations = @ + 1]
  /\ UNCHANGED <<ADMIN_KEY, studioBuffer, ingested, req, deliveries, reads>>
  /\ UNCHANGED <<aggVars, dedupeVars>>

\* items.reverse()
ClientReorder ==
  /\ CanMutate
  /\ Mutated(Reverse(res.items))
  /\ UNCHANGED tagsHeap

\* items.splice(i, 1)
ClientRemove ==
  /\ CanMutate
  /\ \E i \in 1..Len(res.items) : Mutated(RemoveAt(res.items, i))
  /\ UNCHANGED tagsHeap

\* items[i].title = "x"; items[i].type = "hacked"
ClientOverwrite ==
  /\ CanMutate
  /\ \E i \in 1..Len(res.items) :
       Mutated([res.items EXCEPT ![i].title = <<"x">>, ![i].type = "hacked"])
  /\ UNCHANGED tagsHeap

\* items[i].tags.push("x"): writes the array the entry refers to
ClientTagPush ==
  /\ CanMutate
  /\ \E i \in 1..Len(res.items) :
       LET t == res.items[i].tags
       IN /\ Mutated([res.items EXCEPT ![i].tags.val = Append(@, "x")])
          /\ tagsHeap' = IF t.live
                           THEN [tagsHeap EXCEPT ![t.ref] = Append(@, "x")]
                           ELSE tagsHeap

----------------------------------------------------------------------------
(* Parts of the state a specification leaves alone *)

NoEntry ==
  [title |-> NoStr, link |-> UNDEF, contentSnippet |-> UNDEF,
   pubDate |-> [k |-> "missing", t |-> 0], enclosure |-> UNDEF]

NoItem ==
  [title |-> NoStr, link |-> UNDEF, summary |-> "", bullets |-> <<>>,
   pubDate |-> [k |-> "missing", t |-> 0], source |-> "", image |-> NULL]

NoPush == [outcome |-> "none", entry |-> NoEntry, item |-> NoItem]

NoResponse == [status |-> 0, category |-> UNDEF, items |-> <<>>, error |-> ""]

AggIdle ==
  /\ aReq = [route |-> "none", category |-> UNDEF]
  /\ aPc = "idle"
  /\ urls = <<>>
  /\ src = <<>>
  /\ pending = <<>>
  /\ items = <<>>
  /\ aRes = NoResponse
  /\ now = 0
  /\ lastPush = NoPush

DedupeIdle ==
  /\ dIn = <<>>
  /\ dOut = <<>>
  /\ dOut2 = <<>>
  /\ dPc = "idle"

StudioIdle ==
  /\ ADMIN_KEY = ""
  /\ studioBuffer = <<>>
  /\ tagsHeap = <<>>
  /\ ingested = <<>>
  /\ req = [route |-> "none", update |-> NoUpdate, secret |-> UNDEF]
  /\ res = [status |-> 0, pushed |-> FALSE, items |-> <<>>, mutations |-> 0]
  /\ deliveries = 0
  /\ reads = 0


----------------------------------------------------------------------------
(* Helpers: dedupeByLink, safeDomain, sources *)

Range(f) == {f[i] : i \in DOMAIN f}

SeqToBag(q) == [x \in Range(q) |-> Cardinality({i \in DOMAIN q : q[i] = x})]

\* function dedupeByLink(items) {
\*   const s = new Set();
\*   return items.filter(i => s.has(i.link) ? false : (s.add(i.link), true)); }
RECURSIVE FilterKeepLast(_)
FilterKeepLast(q) ==
  IF q = <<>> THEN <<>>
  ELSE IF \E j \in 2..Len(q) : q[j].link = Head(q).link THEN FilterKeepLast(Tail(q))
  ELSE <<Head(q)>> \o FilterKeepLast(Tail(q))

dedupeKeepLast(q) == FilterKeepLast(q)

RECURSIVE FilterUnseen(_, _)
FilterUnseen(q, seen) ==
  IF q = <<>> THEN <<>>
  ELSE IF Head(q).link \in seen THEN FilterUnseen(Tail(q), seen)
  ELSE <<Head(q)>> \o FilterUnseen(Tail(q), seen \cup {Head(q).link})

dedupeByLink(q) == FilterUnseen(q, {})

sources ==
  [c \in {"Hyderabad", "Telangana", "India", "International", "Sports", "Gadgets", "Health"} |->
     CASE c = "Hyderabad" -> <<"https://telanganatoday.com/hyderabad/feed">>
       [] c = "Telangana" -> <<"https://telanganatoday.com/telangana/feed",
                               "https://www.thehindu.com/news/national/feeder/default.rss">>
       [] c = "India" -> <<"https://feeds.feedburner.com/ndtvnews-top-stories",
                           "https://www.thehindu.com/news/national/feeder/default.rss">>
       [] c = "International" -> <<"https://www.thehindu.com/news/international/feeder/default.rss">>
       [] c = "Sports" -> <<"https://feeds.feedburner.com/ndtvsports-latest",
                            "https://www.thehindu.com/sport/feeder/default.rss">>
       [] c = "Gadgets" -> <<"https://feeds.feedburner.com/gadgets360-latest",
                             "https://www.thehindu.com/sci-tech/technology/feeder/default.rss">>
       [] c = "Health" -> <<"https://www.thehindu.com/sci-tech/health/feeder/default.rss">>]

\* function safeDomain(u) { try { return new URL(u).hostname; } catch { return ""; } }
safeDomain(u) ==
  CASE u \in {"https://telanganatoday.com/hyderabad/feed",
              "https://telanganatoday.com/telangana/feed"} -> "telanganatoday.com"
    [] u \in {"https://feeds.feedburner.com/ndtvnews-top-stories",
              "https://feeds.feedburner.com/ndtvsports-latest",
              "https://feeds.feedburner.com/gadgets360-latest"} -> "feeds.feedburner.com"
    [] u \in {"https://www.thehindu.com/news/national/feeder/default.rss",
              "https://www.thehindu.com/news/international/feeder/default.rss",
              "https://www.thehindu.com/sport/feeder/default.rss",
              "https://www.thehindu.com/sci-tech/technology/feeder/default.rss",
              "https://www.thehindu.com/sci-tech/health/feeder/default.rss"} -> "www.thehindu.com"
    [] u = "http://a" -> "a"
    [] u = "http://b" -> "b"
    [] OTHER -> ""

\* Property names every object literal inherits from Object.prototype; their
\* values are functions (or, for __proto__, an object): truthy, not arrays.
ObjectPrototypeKeys ==
  {"constructor", "toString", "toLocaleString", "valueOf", "hasOwnProperty",
   "isPrototypeOf", "propertyIsEnumerable", "__proto__", "__defineGetter__",
   "__defineSetter__", "__lookupGetter__", "__lookupSetter__"}

\* sources[category]
SourcesLookup(category) ==
  IF category \in DOMAIN sources
    THEN [k |-> "array", v |-> sources[category]]
  ELSE IF category \in ObjectPrototypeKeys
    THEN [k |-> "inherited", v |-> <<>>]
  ELSE [k |-> "undefined", v |-> <<>>]

----------------------------------------------------------------------------
(* Syndication entries *)

ValidAt(age) == [k |-> "valid", t |-> Now0 - age]
MissingDate == [k |-> "missing", t |-> 0]
InvalidDate == [k |-> "invalid", t |-> 0]

TLocal == Str(<<"L", "o", "c", "a", "l">>)
TLive == Str(<<"L", "i", "v", "e", ":", "x">>)
TBreaking == Str(<<"B", "R", "E", "A", "K", "I", "N", "G">>)
TDelivery == Str(<<"D", "e", "l", "i", "v", "e", "r", "y">>)
TUpdates == Str(<<"u", "p", "d", "a", "t", "e", "s">>)

EntryA ==
  [title |-> TLocal, link |-> "http://a", contentSnippet |-> "snipA",
   pubDate |-> ValidAt(20), enclosure |-> "http://a/img"]
EntryB ==
  [title |-> TLive, link |-> "http://b", contentSnippet |-> UNDEF,
   pubDate |-> MissingDate, enclosure |-> UNDEF]
EntryC ==
  [title |-> NoStr, link |-> UNDEF, contentSnippet |-> "",
   pubDate |-> InvalidDate, enclosure |-> UNDEF]

LongFeed == [i \in 1..LongFeedLen |-> EntryA]

ShortFeeds == {<<>>, <<EntryA>>, <<EntryB, EntryC>>}

----------------------------------------------------------------------------
(* summarize *)

SummarizeOutcomes ==
  {"fetch_failed", "llm_failed", "not_json", "json_null", "json_number",
   "empty_content", "wrapped_object", "object"}

FallbackSum == [short_story |-> "", bullets |-> [k |-> "arr", v |-> <<>>]]
FullSum == [short_story |-> "story", bullets |-> [k |-> "arr", v |-> <<"b1", "b2", "b3">>]]
NoFields == [short_story |-> UNDEF, bullets |-> [k |-> "undef", v |-> <<>>]]

\* function parseJsonLoose(s): JSON.parse, else JSON.parse of the {...}$ match,
\* else null.  kind "null" is the value null, kind "value" any other value.
parseJsonLoose(content) ==
  CASE content = "not_json" -> [kind |-> "null", v |-> NoFields]
    [] content = "json_null" -> [kind |-> "null", v |-> NoFields]
    [] content = "json_number" -> [kind |-> "value", v |-> NoFields]
    [] content = "empty_content" -> [kind |-> "value", v |-> NoFields]
    [] content = "wrapped_object" -> [kind |-> "value", v |-> FullSum]
    [] content = "object" -> [kind |-> "value", v |-> FullSum]

\* async function summarize(url, source): the catch returns the fallback
\* object, as does a reply that parseJsonLoose turns into null.
summarize(outcome) ==
  IF outcome \in {"fetch_failed", "llm_failed"} THEN FallbackSum
  ELSE LET parsed == parseJsonLoose(outcome)
       IN IF parsed.kind = "null" THEN FallbackSum ELSE parsed.v

TruthyStr(x) == x # UNDEF /\ x # ""

\* items.push({ title, link, summary: sum.short_story || i.contentSnippet || "",
\*              bullets: sum.bullets || [], pubDate, source: src, image })
ItemOfNoFallback(i, sum, url) ==
  [title |-> i.title, link |-> i.link,
   summary |-> IF TruthyStr(sum.short_story) THEN sum.short_story ELSE "",
   bullets |-> IF sum.bullets.k = "arr" THEN sum.bullets.v ELSE <<>>,
   pubDate |-> i.pubDate,
   source |-> IF safeDomain(url) # "" THEN safeDomain(url) ELSE safeDomain(i.link),
   image |-> IF TruthyStr(i.enclosure) THEN i.enclosure ELSE NULL]

ItemOf(i, sum, url) ==
  [title |-> i.title, link |-> i.link,
   summary |-> IF TruthyStr(sum.short_story) THEN sum.short_story
               ELSE IF TruthyStr(i.contentSnippet) THEN i.contentSnippet
               ELSE "",
   bullets |-> IF sum.bullets.k = "arr" THEN sum.bullets.v ELSE <<>>,
   pubDate |-> i.pubDate,
   source |-> IF safeDomain(url) # "" THEN safeDomain(url) ELSE safeDomain(i.link),
   image |-> IF TruthyStr(i.enclosure) THEN i.enclosure ELSE NULL]

----------------------------------------------------------------------------
(* GET /api/feed *)

Fetching == [st |-> "fetching", list |-> <<>>]

Settled(s) ==
  \/ src[s].st = "failed"
  \/ src[s].st = "parsed" /\ pending[s] = EmptyBag

\* const { category = "India" } = req.query
CategoryOf(r) == IF r.category = UNDEF THEN "India" ELSE r.category

\* const urls = sources[category] || sources.India; urls.map(...) throws a
\* TypeError when urls is not an array, and the outer catch answers 500.
FeedStart ==
  /\ aReq.route = "feed" /\ aPc = "start"
  /\ LET found == SourcesLookup(CategoryOf(aReq))
     IN IF found.k = "inherited"
          THEN /\ aRes' = [status |-> 500, category |-> UNDEF, items |-> <<>>,
                           error |-> "feed_failed"]
               /\ aPc' = "done"
               /\ UNCHANGED <<urls, src, pending>>
          ELSE /\ urls' = IF found.k = "array" THEN found.v ELSE sources["India"]
               /\ src' = [s \in 1..Len(urls') |-> Fetching]
               /\ pending' = [s \in 1..Len(urls') |-> EmptyBag]
               /\ aPc' = "fanout"
               /\ UNCHANGED aRes
  /\ UNCHANGED <<aReq, items, now, lastPush, studioVars, dedupeVars>>

\* The long feed is drawn only by requests with a single source, which
\* keeps the interleavings of summarize calls enumerable.
FeedChoices(s) ==
  IF Len(urls) = 1 THEN ShortFeeds \cup {LongFeed} ELSE ShortFeeds

\* const feed = await parser.parseURL(url);
\* const list = (feed.items || []).slice(0, 10); list.map(async (i) => ...)
FeedParsed(s) ==
  /\ aReq.route = "feed" /\ aPc = "fanout" /\ src[s].st = "fetching"
  /\ \E feed \in FeedChoices(s) :
       LET list == Slice0(feed, FEED_LIMIT)
       IN /\ src' = [src EXCEPT ![s] = [st |-> "parsed", list |-> list]]
          /\ pending' = [pending EXCEPT ![s] = SeqToBag(list)]
  /\ UNCHANGED <<aReq, aPc, urls, items, aRes, now, lastPush, studioVars, dedupeVars>>

\* } catch {}  (timeout, network error, malformed payload)
FeedParseFailedAborts(s) ==
  /\ aReq.route = "feed" /\ aPc = "fanout" /\ src[s].st = "fetching"
  /\ src' = [src EXCEPT ![s] = [st |-> "failed", list |-> <<>>]]
  /\ aRes' = [status |-> 500, category |-> UNDEF, items |-> <<>>, error |-> "feed_failed"]
  /\ aPc' = "done"
  /\ UNCHANGED <<aReq, urls, pending, items, now, lastPush, studioVars, dedupeVars>>

FeedParseFailed(s) ==
  /\ aReq.route = "feed" /\ aPc = "fanout" /\ src[s].st = "fetching"
  /\ src' = [src EXCEPT ![s] = [st |-> "failed", list |-> <<>>]]
  /\ UNCHANGED <<aReq, aPc, urls, pending, items, aRes, now, lastPush, studioVars, dedupeVars>>

\* const sum = await summarize(i.link, src); items.push({...})
FeedItemDone(s) ==
  /\ aReq.route = "feed" /\ aPc = "fanout" /\ src[s].st = "parsed"
  /\ \E i \in BagToSet(pending[s]), outcome \in SummarizeOutcomes :
       LET item == ItemOf(i, summarize(outcome), urls[s])
       IN /\ pending' = [pending EXCEPT ![s] = @ (-) SetToBag({i})]
          /\ items' = Append(items, item)
          /\ lastPush' = [outcome |-> outcome, entry |-> i, item |-> item]
  /\ UNCHANGED <<aReq, aPc, urls, src, aRes, now, studioVars, dedupeVars>>

\* cache(res, 120, 60); res.json({ category, items: dedupeByLink(items) })
FeedRespond ==
  /\ aReq.route = "feed" /\ aPc = "fanout"
  /\ \A s \in DOMAIN src : Settled(s)
  /\ aRes' = [status |-> 200, category |-> CategoryOf(aReq),
              items |-> dedupeByLink(items), error |-> ""]
  /\ aPc' = "done"
  /\ UNCHANGED <<aReq, urls, src, pending, items, now, lastPush, studioVars, dedupeVars>>

----------------------------------------------------------------------------
(* Specifications of the studio buffer *)

InitStudio ==
  /\ AggIdle
  /\ DedupeIdle
  /\ ADMIN_KEY \in {"", "s3cret"}
  /\ studioBuffer = <<>>
  /\ tagsHeap = <<>>
  /\ ingested = <<>>
  /\ req = [route |-> "none", update |-> NoUpdate, secret |-> UNDEF]
  /\ res = [status |-> 0, pushed |-> FALSE, items |-> <<>>, mutations |-> 0]
  /\ deliveries = 0
  /\ reads = 0

Deliver ==
  /\ deliveries < MaxDeliveries
  /\ \E u \in Updates, secret \in Secrets : Webhook(u, secret)

NextStudio ==
  \/ Deliver
  \/ ReadStudio

Spec == InitStudio /\ [][NextStudio]_vars

\* Reads and client mutations, between deliveries of a few payloads.
SnapshotUpdates ==
  {[channel_post |-> [MessageBase EXCEPT !.photo = TwoPhoto], message |-> NoMessage],
   [channel_post |-> NoMessage,
    message |-> [MessageBase EXCEPT !.chatType = "private", !.video = "vid"]],
   [channel_post |-> NoMessage,
    message |-> [MessageBase EXCEPT !.chatType = "private", !.text = NoStr,
                                     !.caption = Str(CapText)]]}

DeliverSnapshot ==
  /\ deliveries < MaxDeliveries
  /\ \E u \in SnapshotUpdates, secret \in {"s3cret", "wrong"} : Webhook(u, secret)

NextSnapshot ==
  \/ DeliverSnapshot
  \/ ReadStudio
  \/ ClientReorder
  \/ ClientRemove
  \/ ClientOverwrite
  \/ ClientTagPush

SpecSnapshot == InitStudio /\ [][NextSnapshot]_vars

\* The fill run: message n is a channel text broadcast when n is odd and a
\* private photo message when n is even; a delivery in a group chat or with
\* a wrong secret may come in between.
FillMessage(n) ==
  [present |-> TRUE, chatType |-> IF n % 2 = 1 THEN "channel" ELSE "private",
   message_id |-> n, photo |-> IF n % 2 = 1 THEN NoPhoto ELSE TwoPhoto,
   video |-> UNDEF, text |-> IF n % 2 = 1 THEN Str(FloodText) ELSE NoStr,
   caption |-> IF n % 2 = 1 THEN NoStr ELSE Str(CapText), date |-> 1700 + n]

FillUpdate(n) ==
  IF n % 2 = 1 THEN [channel_post |-> FillMessage(n), message |-> NoMessage]
  ELSE [channel_post |-> NoMessage, message |-> FillMessage(n)]

GroupUpdate(n) ==
  [channel_post |-> NoMessage,
   message |-> [FillMessage(n) EXCEPT !.chatType = "group"]]

FillDeliver ==
  /\ deliveries < MaxFill
  /\ Webhook(FillUpdate(Len(ingested) + 1), "s3cret")

FillIgnored ==
  /\ deliveries < MaxFill
  /\ req.route # "webhook" \/ res.pushed
  /\ \E secret \in {"s3cret", "wrong"} : Webhook(GroupUpdate(Len(ingested) + 1), secret)

NextFill == FillDeliver \/ FillIgnored

SpecFill == InitStudio /\ [][NextFill]_vars


----------------------------------------------------------------------------
(* GET /api/breaking *)

Upper == <<"A", "B", "C", "D", "E", "F", "G", "H", "I", "J", "K", "L", "M",
           "N", "O", "P", "Q", "R", "S", "T", "U", "V", "W", "X", "Y", "Z">>
Lower == <<"a", "b", "c", "d", "e", "f", "g", "h", "i", "j", "k", "l", "m",
           "n", "o", "p", "q", "r", "s", "t", "u", "v", "w", "x", "y", "z">>

ToLower(c) ==
  IF \E k \in DOMAIN Upper : Upper[k] = c
    THEN Lower[CHOOSE k \in DOMAIN Upper : Upper[k] = c]
    ELSE c

Contains(hay, needle) ==
  \E k \in 1..(Len(hay) - Len(needle) + 1) :
    \A j \in 1..Len(needle) : ToLower(hay[k + j - 1]) = needle[j]

\* /(breaking|live|updates?)/i.test(i.title || "")
KeywordMatch(title) ==
  LET t == IF Truthy(title) THEN title.s ELSE <<>>
  IN \/ Contains(t, <<"b", "r", "e", "a", "k", "i", "n", "g">>)
     \/ Contains(t, <<"l", "i", "v", "e">>)
     \/ Contains(t, <<"u", "p", "d", "a", "t", "e">>)

\* const pub = new Date(i.pubDate || 0);
\* const ageMin = isNaN(pub.getTime()) ? 99999 : (Date.now() - pub.getTime()) / 60000;
\* Math.max(1, ageMin), in ticks
AgeInvalidZero(pubDate, t) ==
  CASE pubDate.k = "invalid" -> TicksPerMin
    [] pubDate.k = "missing" -> Max(TicksPerMin, t)
    [] pubDate.k = "valid" -> Max(TicksPerMin, t - pubDate.t)

ClampedAge(pubDate, t) ==
  CASE pubDate.k = "invalid" -> NAN_AGE_MIN * TicksPerMin
    [] pubDate.k = "missing" -> Max(TicksPerMin, t)
    [] pubDate.k = "valid" -> Max(TicksPerMin, t - pubDate.t)

\* score = (keyword ? 2 : 1) * (1 / Math.max(1, ageMin)), kept as the exact
\* fraction boost * TicksPerMin / age
ScoreOf(i, t) ==
  [boost |-> IF KeywordMatch(i.title) THEN 2 ELSE 1, age |-> ClampedAge(i.pubDate, t)]

\* a.score > b.score
ScoreGreater(a, b) == a.boost * b.age > b.boost * a.age

\* items.push({ title: i.title, link: i.link, source: safeDomain(url), score })
\* pubDate is a ghost field: the entry's publish time as it was scored.
BreakingItemOf(i, url, t) ==
  [title |-> i.title, link |-> i.link, source |-> safeDomain(url),
   score |-> ScoreOf(i, t), pubDate |-> i.pubDate]

\* items.sort((a, b) => b.score - a.score): stable, descending
RECURSIVE InsertAscending(_, _)
InsertAscending(x, sorted) ==
  IF sorted = <<>> THEN <<x>>
  ELSE IF ScoreGreater(Head(sorted).score, x.score)
         THEN <<x>> \o sorted
         ELSE <<Head(sorted)>> \o InsertAscending(x, Tail(sorted))

RECURSIVE SortAscending(_)
SortAscending(q) ==
  IF q = <<>> THEN <<>>
  ELSE InsertAscending(q[Len(q)], SortAscending(SubSeq(q, 1, Len(q) - 1)))

RECURSIVE InsertByScore(_, _)
InsertByScore(x, sorted) ==
  IF sorted = <<>> THEN <<x>>
  ELSE IF ScoreGreater(x.score, Head(sorted).score)
         THEN <<x>> \o sorted
         ELSE <<Head(sorted)>> \o InsertByScore(x, Tail(sorted))

RECURSIVE SortByScore(_)
SortByScore(q) ==
  IF q = <<>> THEN <<>>
  ELSE InsertByScore(q[Len(q)], SortByScore(SubSeq(q, 1, Len(q) - 1)))

BEntry(title, link, pubDate) ==
  [title |-> title, link |-> link, contentSnippet |-> UNDEF, pubDate |-> pubDate,
   enclosure |-> UNDEF]

\* Eleven entries, the newest first, one minute apart
BreakingLongFeed ==
  [i \in 1..LongFeedLen |->
     BEntry(IF i = 3 THEN TUpdates ELSE TLocal, "http://a", ValidAt(i * TicksPerMin))]

BreakingFeeds ==
  {<<>>,
   <<BEntry(TLocal, "http://a", ValidAt(5))>>,
   <<BEntry(TLive, "http://b", ValidAt(2 * TicksPerMin)),
     BEntry(TLocal, "http://a", ValidAt(TicksPerMin))>>,
   <<BEntry(TBreaking, "http://b", InvalidDate),
     BEntry(TLocal, "http://a", ValidAt(100000 * TicksPerMin))>>,
   <<BEntry(TBreaking, "http://a", InvalidDate),
     BEntry(TLocal, "http://b", ValidAt(499994))>>,
   <<BEntry(TDelivery, "http://b", MissingDate),
     BEntry(NoStr, UNDEF, ValidAt(0 - TicksPerMin))>>,
   <<BEntry(TLocal, "http://a", InvalidDate),
     BEntry(TLocal, "http://b", MissingDate),
     BEntry(TLocal, "http://a", ValidAt(60000 * TicksPerMin))>>,
   BreakingLongFeed}

\* const urls = [...sources.India, ...sources.International];
BreakingStart ==
  /\ aReq.route = "breaking" /\ aPc = "start"
  /\ urls' = sources["India"] \o sources["International"]
  /\ src' = [s \in 1..Len(urls') |-> Fetching]
  /\ pending' = [s \in 1..Len(urls') |-> EmptyBag]
  /\ aPc' = "fanout"
  /\ UNCHANGED <<aReq, items, aRes, now, lastPush, studioVars, dedupeVars>>

\* const feed = await parser.parseURL(url);
\* (feed.items || []).slice(0, 10).forEach((i) => { ... items.push(...) });
BreakingParsed(s) ==
  /\ aReq.route = "breaking" /\ aPc = "fanout" /\ src[s].st = "fetching"
  /\ \E feed \in BreakingFeeds, dt \in 0..1 :
       LET list == Slice0(feed, FEED_LIMIT)
       IN /\ now + dt <= Now0 + MaxElapsed
          /\ now' = now + dt
          /\ src' = [src EXCEPT ![s] = [st |-> "parsed", list |-> list]]
          /\ items' = items \o [k \in 1..Len(list) |-> BreakingItemOf(list[k], urls[s], now')]
  /\ UNCHANGED <<aReq, aPc, urls, pending, aRes, lastPush, studioVars, dedupeVars>>

\* } catch {}
BreakingParseFailed(s) ==
  /\ aReq.route = "breaking" /\ aPc = "fanout" /\ src[s].st = "fetching"
  /\ src' = [src EXCEPT ![s] = [st |-> "failed", list |-> <<>>]]
  /\ UNCHANGED <<aReq, aPc, urls, pending, items, aRes, now, lastPush, studioVars, dedupeVars>>

\* cache(res, 90, 60);
\* res.json({ items: items.sort((a,b)=>b.score-a.score).slice(0,5) })
BreakingRespond ==
  /\ aReq.route = "breaking" /\ aPc = "fanout"
  /\ \A s \in DOMAIN src : Settled(s)
  /\ aRes' = [status |-> 200, category |-> UNDEF,
              items |-> Slice0(SortByScore(items), TOP_K), error |-> ""]
  /\ aPc' = "done"
  /\ UNCHANGED <<aReq, urls, src, pending, items, now, lastPush, studioVars, dedupeVars>>

----------------------------------------------------------------------------
(* Specification of the two aggregation routes: one request per behaviour *)

FeedCategories ==
  DOMAIN sources \cup {UNDEF, "", "Mars", "constructor", "toString", "__proto__"}

AggRequests ==
  [route : {"feed"}, category : FeedCategories]
  \cup {[route |-> "breaking", category |-> UNDEF]}

InitAggregate ==
  /\ StudioIdle
  /\ DedupeIdle
  /\ aReq \in AggRequests
  /\ aPc = "start"
  /\ urls = <<>>
  /\ src = <<>>
  /\ pending = <<>>
  /\ items = <<>>
  /\ aRes = NoResponse
  /\ now = Now0
  /\ lastPush = NoPush

NextAggregate ==
  \/ FeedStart
  \/ \E s \in DOMAIN src : FeedParsed(s)
  \/ \E s \in DOMAIN src : FeedParseFailed(s)
  \/ \E s \in DOMAIN src : FeedItemDone(s)
  \/ FeedRespond
  \/ BreakingStart
  \/ \E s \in DOMAIN src : BreakingParsed(s)
  \/ \E s \in DOMAIN src : BreakingParseFailed(s)
  \/ BreakingRespond

SpecAggregate == InitAggregate /\ [][NextAggregate]_vars

----------------------------------------------------------------------------
(* Specification of dedupeByLink as a function *)

DedupeItems == [title : {"t1", "t2"}, link : {"http://a", "http://b", UNDEF}]

SeqsUpTo(S, n) == UNION {[1..k -> S] : k \in 0..n}

InitDedupe ==
  /\ StudioIdle
  /\ AggIdle
  /\ dIn \in SeqsUpTo(DedupeItems, MaxDedupeLen)
  /\ dOut = <<>>
  /\ dOut2 = <<>>
  /\ dPc = "input"

DedupeOnce ==
  /\ dPc = "input"
  /\ dOut' = dedupeByLink(dIn)
  /\ dPc' = "once"
  /\ UNCHANGED <<dIn, dOut2, studioVars, aggVars>>

DedupeTwice ==
  /\ dPc = "once"
  /\ dOut2' = dedupeByLink(dOut)
  /\ dPc' = "twice"
  /\ UNCHANGED <<dIn, dOut, studioVars, aggVars>>

NextDedupe == DedupeOnce \/ DedupeTwice

SpecDedupe == InitDedupe /\ [][NextDedupe]_vars

----------------------------------------------------------------------------
(* Properties of the studio buffer *)

\* C1: after any sequence of webhook deliveries the buffer never holds more
\* than studioMax (50) posts, and it holds exactly the min(50, n) most
\* recently ingested posts, most recent first (n = posts ingested so far):
\* push prepends at the head and evicts the tail on overflow.
C1_BufferHoldsMostRecent ==
  /\ Len(studioBuffer) <= studioMax
  /\ DeepSeq(studioBuffer, tagsHeap)
       = SubSeq(ingested, 1, Min(studioMax, Len(ingested)))
  /\ \A i \in 1..Len(studioBuffer) :
       studioBuffer[i].id = Len(ingested) + 1 - i

\* 51 posts were ingested: the buffer holds 50 and the first one is gone.
C1_Witness ==
  /\ Len(ingested) = studioMax + 1
  /\ Len(studioBuffer) = studioMax
  /\ \A i \in 1..Len(studioBuffer) : studioBuffer[i].id # 1

C3_PhotoOverVideo ==
  (req.route = "webhook" /\ res.pushed) =>
    LET m == IngestedMessage(req.update)
        p == studioBuffer[1]
    IN IF Len(m.photo.sizes) > 0
         THEN p.type = "photo" /\ p.file_id = m.photo.sizes[Len(m.photo.sizes)]
       ELSE IF m.video # UNDEF
         THEN p.type = "video" /\ p.file_id = m.video
       ELSE p.type = "text" /\ p.file_id = NULL

\* C3 (amended): the kind follows video > photo > text: a video gives kind
\* video with the video's reference even when a photo list is present; else
\* a non-empty photo list gives kind photo with the last variant's
\* reference; else kind text with no media reference.
C3_VideoOverPhoto ==
  (req.route = "webhook" /\ res.pushed) =>
    LET m == IngestedMessage(req.update)
        p == studioBuffer[1]
    IN IF m.video # UNDEF
         THEN p.type = "video" /\ p.file_id = m.video
       ELSE IF Len(m.photo.sizes) > 0
         THEN p.type = "photo" /\ p.file_id = m.photo.sizes[Len(m.photo.sizes)]
       ELSE p.type = "text" /\ p.file_id = NULL

\* A post ingested from a message carrying both a photo list and a video.
C3_Witness ==
  /\ req.route = "webhook" /\ res.pushed
  /\ Len(IngestedMessage(req.update).photo.sizes) > 0
  /\ IngestedMessage(req.update).video # UNDEF
  /\ studioBuffer[1].type = "video"

----------------------------------------------------------------------------
(* Properties of the aggregation routes and of dedupeByLink *)

\* C5 (as claimed): GET /api/feed with a category that is not one of the
\* seven configured names (absent, unknown, or a name such as "constructor"
\* or "toString") uses the India source list and is answered 200 with the
\* category and the items; it is never answered with an error.
C5_UnknownCategoryFallsBack ==
  (aReq.route = "feed" /\ aPc = "done" /\ aReq.category \notin DOMAIN sources) =>
    /\ urls = sources["India"]
    /\ aRes.status = 200
    /\ aRes.category = CategoryOf(aReq)

\* The (title, link, pubDate, source) of a collected item and of an entry
ItemKey(x) == [title |-> x.title, link |-> x.link, pubDate |-> x.pubDate, source |-> x.source]
EntryKey(i, url) ==
  [title |-> i.title, link |-> i.link, pubDate |-> i.pubDate, source |-> safeDomain(url)]

RECURSIVE ExpectedKeys(_)
ExpectedKeys(n) ==
  IF n = 0 THEN <<>>
  ELSE ExpectedKeys(n - 1)
       \o [k \in 1..Len(src[n].list) |-> EntryKey(src[n].list[k], urls[n])]

\* C6: in the fan-out of /api/feed and /api/breaking a failing source is
\* swallowed: the response is sent only when every source has settled, it is
\* a 200, and the items collected before dedup / ranking are exactly (as a
\* multiset) the first-10 entries of the sources that succeeded, whichever
\* subset succeeded and in whatever order they completed; if every source
\* failed the item list is empty.
C6_FanoutCollectsSucceeded ==
  (aPc = "done" /\ Len(urls) > 0) =>
    /\ aRes.status = 200
    /\ \A s \in DOMAIN src : src[s].st \in {"failed", "parsed"} /\ pending[s] = EmptyBag
    /\ \A s \in DOMAIN src : Len(src[s].list) <= FEED_LIMIT
    /\ SeqToBag([k \in 1..Len(items) |-> ItemKey(items[k])])
         = SeqToBag(ExpectedKeys(Len(urls)))
    /\ (\A s \in DOMAIN src : src[s].st = "failed") => (items = <<>> /\ aRes.items = <<>>)

\* One source failed, another delivered entries, and the response went out.
C6_Witness ==
  /\ aPc = "done" /\ aRes.status = 200
  /\ \E s, t \in DOMAIN src :
       src[s].st = "failed" /\ src[t].st = "parsed" /\ Len(src[t].list) > 0
  /\ Len(items) > 0

SummarizeFailures == {"fetch_failed", "llm_failed", "not_json", "json_null", "json_number"}

RECURSIVE TotalEntries(_)
TotalEntries(n) == IF n = 0 THEN 0 ELSE TotalEntries(n - 1) + Len(src[n].list)

\* C7: in /api/feed an entry whose summarization failed (article fetch or
\* language-model call failed, or the reply was not the expected JSON
\* object) still yields an item, with the entry's own short description (or
\* the empty string) as summary and no bullets; the request is answered 200
\* with one item collected per entry of every parsed source, and every
\* entry's link is present in the (deduplicated) response.
C7_SummarizeFailureFallsBack ==
  /\ lastPush.outcome \in SummarizeFailures =>
       /\ Len(items) > 0 /\ items[Len(items)] = lastPush.item
       /\ lastPush.item.title = lastPush.entry.title
       /\ lastPush.item.link = lastPush.entry.link
       /\ lastPush.item.summary =
            (IF lastPush.entry.contentSnippet \in {UNDEF, ""}
               THEN "" ELSE lastPush.entry.contentSnippet)
       /\ lastPush.item.bullets = <<>>
  /\ (aReq.route = "feed" /\ aPc = "done" /\ Len(urls) > 0) =>
       /\ aRes.status = 200
       /\ Len(items) = TotalEntries(Len(urls))
       /\ {items[k].link : k \in 1..Len(items)}
            = {aRes.items[k].link : k \in 1..Len(aRes.items)}

\* The reply for an entry with a short description was not JSON; the
\* request completed.
C7_Witness ==
  /\ aReq.route = "feed" /\ aPc = "done" /\ aRes.status = 200
  /\ lastPush.outcome = "not_json"
  /\ lastPush.entry.contentSnippet = "snipA"
  /\ lastPush.item.summary = "snipA"

Kth(S, k) == CHOOSE i \in S : Cardinality({j \in S : j <= i}) = k

\* C8: dedupeByLink returns the subsequence of first occurrences of each
\* link, in the original order: no two results share a link, every link of
\* the input occurs in the result, the result is no longer than the input,
\* and applying dedupeByLink to its result returns it unchanged.
C8_DedupeFirstOccurrence ==
  (dPc = "twice") =>
    LET first == {i \in 1..Len(dIn) : \A j \in 1..(i - 1) : dIn[j].link # dIn[i].link}
    IN /\ Len(dOut) = Cardinality(first)
       /\ \A k \in 1..Len(dOut) : dOut[k] = dIn[Kth(first, k)]
       /\ \A a, b \in 1..Len(dOut) : a # b => dOut[a].link # dOut[b].link
       /\ {dIn[i].link : i \in 1..Len(dIn)} = {dOut[k].link : k \in 1..Len(dOut)}
       /\ Len(dOut) <= Len(dIn)
       /\ dOut2 = dOut

\* An input with a repeated link between two other occurrences.
C8_Witness ==
  /\ dPc = "twice"
  /\ Len(dIn) = MaxDedupeLen
  /\ Len(dOut) = 2
  /\ dIn[1].link = dIn[3].link /\ dIn[1].title # dIn[3].title
  /\ dIn[2].link # dIn[1].link

\* The keyword boost of the titles the feeds carry
BoostOfTitle(title) ==
  IF title \in {TLive, TBreaking, TUpdates, TDelivery} THEN 2 ELSE 1

\* C9: /api/breaking returns min(5, total) items in non-increasing order of
\* score = boost / max(1, ageMinutes), boost being 2 for a title matching
\* breaking, live or update(s) in any case and 1 otherwise; every returned
\* item is a collected item, and no omitted item has a score strictly
\* greater than a returned one, in whatever order the sources completed.
C9_TopFiveByScore ==
  (aReq.route = "breaking" /\ aPc = "done") =>
    LET r == aRes.items
        omitted == BagToSet(SeqToBag(items) (-) SeqToBag(r))
    IN /\ aRes.status = 200
       /\ Len(r) = Min(TOP_K, Len(items))
       /\ \A i, j \in 1..Len(r) : i < j => ~ScoreGreater(r[j].score, r[i].score)
       /\ SeqToBag(r) \sqsubseteq SeqToBag(items)
       /\ \A x \in omitted : \A i \in 1..Len(r) : ~ScoreGreater(x.score, r[i].score)
       /\ \A k \in 1..Len(items) :
            /\ items[k].score.boost = BoostOfTitle(items[k].title)
            /\ items[k].pubDate.k = "valid" =>
                 \E t \in Now0..now :
                   items[k].score.age = Max(TicksPerMin, t - items[k].pubDate.t)

\* More than five items were collected and the first returned item scores
\* strictly higher than the last.
C9_Witness ==
  /\ aReq.route = "breaking" /\ aPc = "done"
  /\ Len(items) > TOP_K
  /\ Len(aRes.items) = TOP_K
  /\ ScoreGreater(aRes.items[1].score, aRes.items[TOP_K].score)
  /\ \E k \in 1..Len(items) : ScoreGreater(items[k].score, items[1].score)

Unparsed(x) == x.pubDate.k \in {"missing", "invalid"}

\* C10 (as claimed): an entry whose publish time is missing or unparseable
\* never ranks above an entry with a valid publish time, whatever the titles
\* and however old the valid entry is.
C10_UnparsedNeverAboveValid ==
  (aReq.route = "breaking" /\ aPc = "done") =>
    LET r == aRes.items
        omitted == BagToSet(SeqToBag(items) (-) SeqToBag(r))
    IN /\ \A i, j \in 1..Len(r) :
            i < j => ~(Unparsed(r[i]) /\ r[j].pubDate.k = "valid")
       /\ \A x \in omitted : \A i \in 1..Len(r) :
            ~(Unparsed(r[i]) /\ x.pubDate.k = "valid")

\* A valid publish time less than NAN_AGE_MIN / 2 minutes old when scored
ValidRecent(x) ==
  x.pubDate.k = "valid" /\ 2 * x.score.age < NAN_AGE_MIN * TicksPerMin

\* C10 (amended): an entry whose publish time is missing or unparseable
\* never ranks above an entry whose valid publish time was less than
\* 49999.5 minutes old when scored, whatever the titles.
C10_UnparsedNeverAboveRecent ==
  (aReq.route = "breaking" /\ aPc = "done") =>
    LET r == aRes.items
        omitted == BagToSet(SeqToBag(items) (-) SeqToBag(r))
    IN /\ \A i, j \in 1..Len(r) :
            i < j => ~(Unparsed(r[i]) /\ ValidRecent(r[j]))
       /\ \A x \in omitted : \A i \in 1..Len(r) :
            ~(Unparsed(r[i]) /\ ValidRecent(x))

\* An unparseable entry with a boosted title is returned below a recent
\* valid entry with a plain title that was collected after it.
C10_Witness ==
  /\ aReq.route = "breaking" /\ aPc = "done"
  /\ \E i, j \in 1..Len(aRes.items) :
       /\ i < j
       /\ ValidRecent(aRes.items[i]) /\ aRes.items[i].score.boost = 1
       /\ aRes.items[j].pubDate.k = "invalid" /\ aRes.items[j].score.boost = 2
  /\ Unparsed(items[1])

====
